---- MODULE Spec2Model ----
(***************************************************************************)
(* Payment orchestration and reconciliation of backend-mkcloset:           *)
(* PaymentsService (src/src/payments/payments.service.ts) and the          *)
(* ConfigService getters it reads (src/unnamed/part_000).                  *)
(*                                                                         *)
(* Each request handler is an async function; the code between two awaits  *)
(* runs without interruption on Node's event loop, so one action models    *)
(* one such stretch: the completion of the awaited call together with the  *)
(* synchronous code that follows it up to the next await, throw or return. *)
(* The store, the antifraud service, the gateway and the mailer are the    *)
(* environment: their answers are chosen nondeterministically.             *)
(***************************************************************************)
EXTENDS Integers, FiniteSets, Sequences, TLC

\* ---------------------------------------------------------------- bounds
\* Charges the gateway will create before it only answers with failures.
MaxCharges == 2

\* Two requests are in flight at the same time: every race of the handlers
\* is a race of two of them.
Handlers == {"h1", "h2"}

\* ------------------------------------------------------------ vocabulary
\* null / undefined of the source.
NULL == "null"
\* A missing gatewayTransactionId (falsy) and a gateway answer without id.
NoGid == 0
\* A checkout id the gateway never issued.
UnknownGid == 99
NoTx == [id |-> NoGid, orderId |-> NULL, status |-> NULL,
         gatewayTransactionId |-> NoGid, antifraudStatus |-> NULL]

OrderStatus == {"PENDING", "PAID", "CANCELLED", "SHIPPED", "DELIVERED"}
InitOps == {"pix", "card", "redirect"}
OrderIds == {"o1", "o2", "o3"}
\* Order ids a request may carry: the stored orders and one that is absent.
RequestOrderIds == OrderIds \cup {"o404"}
RequesterIds == {NULL, "u1", "g1"}
AntifraudVerdicts == {"APPROVED", "DENIED", "REVIEW"}
\* Statuses the direct card charge answers with.
CardStatuses == {"PAID", "DECLINED"}
\* Statuses getCheckoutDetails reports in the state machine (the full
\* vocabulary of the mapping table is exercised on its own).
GatewayStatuses == {"APPROVED", "CANCELED", "REFUNDED"}
Bodies == {"b1", "b2"}
\* Keys a sender may sign with: the real secret and the empty key.
SenderKeys == {"s1", ""}

\* JavaScript truthiness of a string-or-null value.
Truthy(v) == v # NULL /\ v # ""

\* crypto.createHmac('sha256', key).update(body).digest('hex'): a keyed
\* hash, collision free on the values of the model (symbolic digest).
HmacSha256Hex(key, body) == <<"hmac-sha256", key, body>>

\* A request without signature header carries the empty signature.
NoSignature == <<>>
Signatures == {NoSignature} \cup {HmacSha256Hex(k, b) : k \in SenderKeys, b \in Bodies}

\* ------------------------------------------------------------------ state
VARIABLES
    env,            \* process environment read by ConfigService
    orders,         \* Order rows, by id
    transactions,   \* Transaction rows
    charges,        \* charges / checkouts created at the gateway
    calls           \* in-flight handlers: position and locals

vars == <<env, orders, transactions, charges, calls>>

\* ------------------------------------------------------------- ConfigService
\* Variant: an unset URL falls back to a default.
backendUrlWithDefault(e) ==
    IF Truthy(e.BACKEND_URL) THEN e.BACKEND_URL ELSE "http://localhost:3000"

\* nestConfigService.get(...) || ''
backendUrl(e) == IF Truthy(e.BACKEND_URL) THEN e.BACKEND_URL ELSE ""

\* Variant: only an unset secret throws, an empty one is returned.
pagSeguroWebhookSecretThrowsIfUnset(e) == e.PAGSEGURO_WEBHOOK_SECRET = NULL

\* The getter throws when the secret is unset or empty.
pagSeguroWebhookSecretThrows(e) == ~Truthy(e.PAGSEGURO_WEBHOOK_SECRET)
pagSeguroWebhookSecret(e) == e.PAGSEGURO_WEBHOOK_SECRET

\* ------------------------------------------------------------ pure helpers
\* Variant: the user branch only requires some requester id.
ensureOrderOwnershipAnyUser(order, requesterId) ==
    IF Truthy(order.userId)
    THEN Truthy(requesterId)
    ELSE IF ~Truthy(order.guestId)
         THEN FALSE
         ELSE Truthy(requesterId) /\ order.guestId = requesterId

\* Variant: the guest branch only requires some requester id.
ensureOrderOwnershipAnyGuest(order, requesterId) ==
    IF Truthy(order.userId)
    THEN Truthy(requesterId) /\ order.userId = requesterId
    ELSE IF ~Truthy(order.guestId)
         THEN FALSE
         ELSE Truthy(requesterId)

\* ensureOrderOwnership: TRUE when it returns, FALSE when it throws.
ensureOrderOwnership(order, requesterId) ==
    IF Truthy(order.userId)
    THEN Truthy(requesterId) /\ order.userId = requesterId
    ELSE IF ~Truthy(order.guestId)
         THEN FALSE
         ELSE Truthy(requesterId) /\ order.guestId = requesterId

\* prisma.transaction.findUnique({ where: { orderId } })
getExistingPaymentTransaction(rows, orderId) ==
    IF \E t \in rows : t.orderId = orderId
    THEN CHOOSE t \in rows : t.orderId = orderId
    ELSE NoTx

\* Variant: a store without the unique key.
UniqueViolationNever(rows, orderId) == FALSE

\* Transaction.orderId is a unique key of the store (it is the key of the
\* findUnique above): an insert of a second row for the order is refused.
UniqueViolation(rows, orderId) == \E t \in rows : t.orderId = orderId

\* prisma.transaction.findFirst({ where: { gatewayTransactionId } })
\* Variant: without a match the first row of the table is returned.
findByGatewayIdOrAny(rows, gid) ==
    IF \E t \in rows : t.gatewayTransactionId = gid
    THEN CHOOSE t \in rows : t.gatewayTransactionId = gid
    ELSE IF rows # {} THEN CHOOSE t \in rows : TRUE ELSE NoTx

findByGatewayId(rows, gid) ==
    IF \E t \in rows : t.gatewayTransactionId = gid
    THEN CHOOSE t \in rows : t.gatewayTransactionId = gid
    ELSE NoTx

\* Variant: the default case passes the gateway's string through.
mapPagSeguroStatusToOrderStatusPassThrough(s) ==
    CASE s \in {"PAID", "APPROVED"} -> "PAID"
      [] s \in {"IN_ANALYSIS", "PENDING"} -> "PENDING"
      [] s \in {"CANCELED", "ABORTED"} -> "CANCELLED"
      [] s \in {"REFUNDED", "SHIPPED"} -> "SHIPPED"
      [] OTHER -> s

\* Lines 718-739: the switch over the gateway status string (case-sensitive).
mapPagSeguroStatusToOrderStatus(s) ==
    CASE s \in {"PAID", "APPROVED"} -> "PAID"
      [] s \in {"IN_ANALYSIS", "PENDING"} -> "PENDING"
      [] s \in {"CANCELED", "ABORTED"} -> "CANCELLED"
      [] s \in {"REFUNDED", "SHIPPED"} -> "SHIPPED"
      [] s = "DELIVERED" -> "DELIVERED"
      [] OTHER -> "PENDING"

\* checkoutDetails.status || checkoutDetails.charges?.[0]?.status || 'PENDING'
effectiveStatus(status, chargeStatus) ==
    IF Truthy(status) THEN status
    ELSE IF Truthy(chargeStatus) THEN chargeStatus
    ELSE "PENDING"

\* Variant: the digest is taken over some body, not the one received.
signatureMismatchAnyBody(signature, secret, rawBody) ==
    \A b \in Bodies : signature # HmacSha256Hex(secret, b)

\* Variant: only a missing signature is refused.
signatureMismatchIfMissing(signature, secret, rawBody) ==
    signature = NoSignature

\* signature !== expectedSignature
signatureMismatch(signature, secret, rawBody) ==
    signature # HmacSha256Hex(secret, rawBody)

\* Variant: the verdict is compared with a value the service never sends.
antifraudDeniedMisspelt(verdict) == verdict = "REJECTED"

\* antifraudResult.status === 'DENIED'
antifraudDenied(verdict) == verdict = "DENIED"

\* Variant: every operation stores PENDING.
storedStatusAlwaysPending(op, gwStatus) == "PENDING"

\* Variant: every operation stores the status the gateway answered with.
storedStatusFromGateway(op, gwStatus) == gwStatus

\* Lines 136 / 261 / 390: the status each initiation operation stores in
\* the new Transaction.
storedStatus(op, gwStatus) ==
    CASE op = "pix" -> "PENDING"
      [] op = "card" -> gwStatus
      [] op = "redirect" -> "PENDING_REDIRECT"

\* order.user?.email ?? order.guestEmail
recipientEmail(order) == IF order.userEmail # NULL THEN order.userEmail ELSE order.guestEmail

\* ------------------------------------------------------------ handler locals
Idle == [op |-> "none", pc |-> "idle", orderId |-> NULL, requesterId |-> NULL,
         checkoutId |-> NoGid, signature |-> NoSignature, rawBody |-> NULL,
         existing |-> NoGid, verdict |-> NULL, gwStatus |-> NULL, gid |-> NoGid,
         outcome |-> NULL, cause |-> NULL, resGid |-> NoGid, retry |-> FALSE,
         gwCreateCalled |-> FALSE, lookups |-> FALSE,
         inserted |-> FALSE, keyRefused |-> FALSE, wrote |-> FALSE, notified |-> NULL,
         hadTx |-> FALSE, prevStatus |-> NULL, mailError |-> NULL]

\* The handler throws: the request ends with an exception of class `kind`.
Throw(c, kind, cause) == [c EXCEPT !.pc = "done", !.outcome = kind, !.cause = cause]
\* The handler returns a result that references gateway id `g`.
Return(c, g) == [c EXCEPT !.pc = "done", !.outcome = "ok", !.cause = NULL, !.resGid = g]

\* Variant: the catch around the notification throws the error on.
notificationOutcomeRethrown(c, mailError, g) ==
    IF mailError # NULL
    THEN Throw([c EXCEPT !.mailError = mailError], "InternalError", "mail")
    ELSE Return(c, g)

\* Lines 283-290 / 512-517: an error of the recipient lookup ("resolve") or
\* of the mail send ("send") is logged by the catch around the notification
\* and the handler goes on to its return statement.
notificationOutcome(c, mailError, g) == Return([c EXCEPT !.mailError = mailError], g)

InitialOrders ==
    [o \in OrderIds |->
        CASE o = "o1" -> [status |-> "PENDING", userId |-> "u1", guestId |-> NULL,
                          userEmail |-> "u1@mail", guestEmail |-> NULL]
          [] o = "o2" -> [status |-> "PENDING", userId |-> NULL, guestId |-> "g1",
                          userEmail |-> NULL, guestEmail |-> NULL]
          [] o = "o3" -> [status |-> "PENDING", userId |-> NULL, guestId |-> NULL,
                          userEmail |-> NULL, guestEmail |-> "x@mail"]]

Init ==
    /\ env \in [BACKEND_URL : {NULL, "https://api"},
                PAGSEGURO_WEBHOOK_SECRET : {NULL, "", "s1"}]
    /\ orders = InitialOrders
    /\ transactions = {}
    /\ charges = {}
    /\ calls = [h \in Handlers |-> Idle]

\* History: the request repeats a call (same operation, order and requester)
\* that stored the order's Transaction and has returned its result.
RepeatsReturnedCall(op, o, r) ==
    \E p \in Handlers :
        /\ calls[p].pc = "done" /\ calls[p].outcome = "ok" /\ calls[p].inserted
        /\ calls[p].op = op /\ calls[p].orderId = o /\ calls[p].requesterId = r

\* History: the gateway status fetched by a webhook delivery for the same
\* checkout id that has returned a result (NULL when there is none).
DeliveredStatus(checkoutId) ==
    LET delivered == {p \in Handlers :
                        /\ calls[p].pc = "done" /\ calls[p].outcome = "ok"
                        /\ calls[p].op = "webhook" /\ calls[p].checkoutId = checkoutId}
    IN IF delivered = {} THEN NULL ELSE calls[CHOOSE p \in delivered : TRUE].gwStatus

\* ------------------------------------------------- the initiation operations
\* The three operations share one skeleton; the line numbers are those of
\* createPixCharge / processCreditCardPayment /
\* initiatePagSeguroRedirectCheckout in payments.service.ts.
\*
\* Lines 57-62 / 164-179 / 308-313: the call up to its first await
\* (ordersService.findOneById); the card operation first checks its card data.
StartInitiation(h, op, o, r, cardComplete) ==
    /\ calls[h].pc = "idle"
    /\ LET c == [Idle EXCEPT !.op = op, !.orderId = o, !.requesterId = r,
                             !.retry = RepeatsReturnedCall(op, o, r),
                             !.hadTx = (getExistingPaymentTransaction(transactions, o) # NoTx)]
       IN calls' = [calls EXCEPT ![h] =
                      IF op = "card" /\ ~cardComplete
                      THEN Throw(c, "BadRequest", "cardData")
                      ELSE [c EXCEPT !.pc = "findOrder"]]
    /\ UNCHANGED <<env, orders, transactions, charges>>

\* Variant: only a paid order is refused.
statusNotPendingOnlyPaid(order) == order.status = "PAID"

\* Lines 68 / 185 / 319: order.status !== OrderStatus.PENDING
statusNotPending(order) == order.status # "PENDING"

\* Lines 61-74 / 178-191 / 312-325: findOneById resolves; not-found check;
\* status check; ensureOrderOwnership.
FindOrder(h) ==
    LET c == calls[h] IN
    /\ c.pc = "findOrder"
    /\ calls' = [calls EXCEPT ![h] =
          IF c.orderId \notin OrderIds THEN Throw(c, "NotFound", "order")
          ELSE IF statusNotPending(orders[c.orderId]) THEN Throw(c, "BadRequest", "status")
          ELSE IF ~ensureOrderOwnership(orders[c.orderId], c.requesterId)
               THEN Throw(c, "BadRequest", "ownership")
          ELSE [c EXCEPT !.pc = "findExisting"]]
    /\ UNCHANGED <<env, orders, transactions, charges>>

\* Lines 76-87 / 193-204 / 327-340: getExistingPaymentTransaction resolves;
\* on a hit the build*Response function starts (its id check, lines 523 /
\* 574 / 611, runs before its first await).
FindExisting(h) ==
    LET c == calls[h]
        ex == getExistingPaymentTransaction(transactions, c.orderId)
    IN
    /\ c.pc = "findExisting"
    /\ calls' = [calls EXCEPT ![h] =
          IF ex # NoTx
          THEN IF ex.gatewayTransactionId = NoGid
               THEN Throw(c, "InternalError", "noGatewayId")
               ELSE [c EXCEPT !.pc = "rebuild", !.existing = ex.gatewayTransactionId]
          ELSE [c EXCEPT !.pc = "antifraud"]]
    /\ UNCHANGED <<env, orders, transactions, charges>>

\* Lines 529-568 / 580-605 / 617-634: buildPixResponseFromTransaction /
\* buildExistingDirectCardResponse / buildExistingRedirectResponse: the
\* details lookup answers or fails, and either way a response is returned.
Rebuild(h) ==
    LET c == calls[h] IN
    /\ c.pc = "rebuild"
    /\ \E answer \in {"fails", "withId", "withoutId"} :
         LET checkoutId == IF answer = "withId" THEN c.existing ELSE NoGid
             g == IF c.op = "redirect" /\ answer # "fails" /\ checkoutId # NoGid
                  THEN checkoutId
                  ELSE c.existing
         IN calls' = [calls EXCEPT ![h] = Return([c EXCEPT !.lookups = TRUE], g)]
    /\ UNCHANGED <<env, orders, transactions, charges>>

\* Lines 89-114 / 206-232 / 342-367: antifraudService.analyzeTransaction
\* resolves or rejects; DENIED check; backendUrl check. Every throw here
\* lands in the catch block (147-161 / 291-305 / 399-413), which throws an
\* InternalServerErrorException in its place.
Antifraud(h) ==
    LET c == calls[h] IN
    /\ c.pc = "antifraud"
    /\ \E v \in AntifraudVerdicts \cup {"error"} :
         LET d == [c EXCEPT !.verdict = v] IN
         calls' = [calls EXCEPT ![h] =
            IF v = "error" THEN Throw(d, "InternalError", "antifraud")
            ELSE IF antifraudDenied(v) THEN Throw(d, "InternalError", "denied")
            ELSE IF ~Truthy(backendUrl(env)) THEN Throw(d, "InternalError", "backendUrl")
            ELSE [d EXCEPT !.pc = "gatewayCreate"]]
    /\ UNCHANGED <<env, orders, transactions, charges>>

\* Lines 116-129 / 234-253 / 369-382: the gateway-create call answers (a new
\* charge exists at the gateway) or fails (rethrown as is when it is a
\* 'Falha no PagSeguro:' error, normalised otherwise).
GatewayCreate(h) ==
    LET c == calls[h]
        d == [c EXCEPT !.gwCreateCalled = TRUE]
    IN
    /\ c.pc = "gatewayCreate"
    /\ \/ /\ Cardinality(charges) < MaxCharges
          /\ LET g == Cardinality(charges) + 1 IN
             /\ charges' = charges \cup {[id |-> g, orderId |-> c.orderId]}
             /\ \E s \in (IF c.op = "card" THEN CardStatuses ELSE {NULL}) :
                  calls' = [calls EXCEPT ![h] =
                      [d EXCEPT !.pc = "persist", !.gid = g, !.gwStatus = s]]
       \/ /\ \E cause \in {"pagseguro", "gatewayOther"} :
                  calls' = [calls EXCEPT ![h] = Throw(d, "InternalError", cause)]
          /\ UNCHANGED charges
    /\ UNCHANGED <<env, orders, transactions>>

\* Lines 131-146 / 255-269 / 384-398: prisma.transaction.create resolves or
\* rejects (unique key, store failure); a rejection lands in the catch block.
Persist(h) ==
    LET c == calls[h]
        row == [id |-> c.gid, orderId |-> c.orderId,
                status |-> storedStatus(c.op, c.gwStatus),
                gatewayTransactionId |-> c.gid,
                antifraudStatus |-> c.verdict]
        d == [c EXCEPT !.inserted = TRUE]
    IN
    /\ c.pc = "persist"
    /\ IF UniqueViolation(transactions, c.orderId)
       THEN /\ calls' = [calls EXCEPT ![h] =
                    Throw([c EXCEPT !.keyRefused = TRUE], "InternalError", "unique")]
            /\ UNCHANGED transactions
       ELSE \/ /\ calls' = [calls EXCEPT ![h] = Throw(c, "InternalError", "store")]
               /\ UNCHANGED transactions
            \/ /\ transactions' = transactions \cup {row}
               /\ IF c.op = "card" /\ c.gwStatus = "PAID"
                  THEN /\ calls' = [calls EXCEPT ![h] = [d EXCEPT !.pc = "updateOrder"]]
                  ELSE /\ calls' = [calls EXCEPT ![h] =
                              Return(d, IF c.op = "redirect" THEN NoGid ELSE c.gid)]
    /\ UNCHANGED <<env, orders, charges>>

\* Lines 269-276, direct card with status PAID: prisma.order.update resolves
\* or rejects (into the catch block).
UpdateOrder(h) ==
    LET c == calls[h] IN
    /\ c.pc = "updateOrder"
    /\ \/ /\ orders' = [orders EXCEPT ![c.orderId].status = "PAID"]
          /\ IF Truthy(recipientEmail(orders[c.orderId]))
             THEN /\ calls' = [calls EXCEPT ![h] = [c EXCEPT !.wrote = TRUE, !.pc = "notify"]]
             ELSE /\ calls' = [calls EXCEPT ![h] = Return([c EXCEPT !.wrote = TRUE], c.gid)]
       \/ /\ calls' = [calls EXCEPT ![h] = Throw(c, "InternalError", "store")]
          /\ UNCHANGED orders
    /\ UNCHANGED <<env, transactions, charges>>

\* Lines 277-290, direct card: sendPaymentConfirmationEmail resolves or
\* rejects (swallowed).
CardNotify(h) ==
    LET c == calls[h] IN
    /\ c.pc = "notify" /\ c.op = "card"
    /\ \E mailError \in {NULL, "send"} :
         calls' = [calls EXCEPT ![h] =
            notificationOutcome([c EXCEPT !.notified = "confirmation"], mailError, c.gid)]
    /\ UNCHANGED <<env, orders, transactions, charges>>

\* ------------------------------------------------------- the webhook handler
\* Lines 416-440: handlePagSeguroNotification up to its first await: the
\* secret getter, the HMAC over the raw body and the comparison all run
\* synchronously.
StartWebhook(h, checkoutId, signature, rawBody) ==
    /\ calls[h].pc = "idle"
    /\ LET c == [Idle EXCEPT !.op = "webhook", !.checkoutId = checkoutId,
                             !.signature = signature, !.rawBody = rawBody,
                             !.prevStatus = DeliveredStatus(checkoutId)]
       IN calls' = [calls EXCEPT ![h] =
            IF pagSeguroWebhookSecretThrows(env)
            THEN Throw(c, "InternalError", "secret")
            ELSE IF signatureMismatch(signature, pagSeguroWebhookSecret(env), rawBody)
                 THEN Throw(c, "Unauthorized", "signature")
                 ELSE [c EXCEPT !.pc = "getCheckoutDetails"]]
    /\ UNCHANGED <<env, orders, transactions, charges>>

\* Lines 442-450: pagSeguroService.getCheckoutDetails resolves or rejects;
\* the status is extracted (and mapped where it is used).
GetCheckoutDetails(h, statuses) ==
    LET c == calls[h]
        d == [c EXCEPT !.lookups = TRUE]
    IN
    /\ c.pc = "getCheckoutDetails"
    /\ \/ \E st \in statuses \cup {NULL}, ch \in statuses \cup {NULL} :
            calls' = [calls EXCEPT ![h] =
                [d EXCEPT !.pc = "findTransaction", !.gwStatus = effectiveStatus(st, ch)]]
       \/ calls' = [calls EXCEPT ![h] = Throw(d, "InternalError", "pagseguro")]
    /\ UNCHANGED <<env, orders, transactions, charges>>

\* Variant: the handler has no no-op check.
alreadyUpdatedNever(transaction, order, newOrderStatus) == FALSE

\* Lines 466-469: transaction.status === newOrderStatus &&
\* transaction.order.status === newOrderStatus
alreadyUpdated(transaction, order, newOrderStatus) ==
    transaction.status = newOrderStatus /\ order.status = newOrderStatus

\* Lines 452-474: prisma.transaction.findFirst resolves; not-found check;
\* no-op check.
FindTransaction(h) ==
    LET c == calls[h]
        t == findByGatewayId(transactions, c.checkoutId)
        newOrderStatus == mapPagSeguroStatusToOrderStatus(c.gwStatus)
    IN
    /\ c.pc = "findTransaction"
    /\ calls' = [calls EXCEPT ![h] =
          IF t = NoTx \/ t.orderId \notin OrderIds
          THEN Throw(c, "NotFound", "transaction")
          ELSE IF alreadyUpdated(t, orders[t.orderId], newOrderStatus)
               THEN Return([c EXCEPT !.orderId = t.orderId, !.existing = t.id], NoGid)
               ELSE [c EXCEPT !.pc = "write", !.orderId = t.orderId, !.existing = t.id]]
    /\ UNCHANGED <<env, orders, transactions, charges>>

\* Variant: the two updates are not one transaction and the second is lost.
applyStatusWriteTransactionOnly(rows, ords, txId, orderId, newOrderStatus) ==
    [transactions |-> {IF t.id = txId THEN [t EXCEPT !.status = newOrderStatus] ELSE t : t \in rows},
     orders |-> ords]

\* Variant: the order update has no where clause and reaches every Order.
applyStatusWriteEveryOrder(rows, ords, txId, orderId, newOrderStatus) ==
    [transactions |-> {IF t.id = txId THEN [t EXCEPT !.status = newOrderStatus] ELSE t : t \in rows},
     orders |-> [o \in DOMAIN ords |-> [ords[o] EXCEPT !.status = newOrderStatus]]]

\* Both updates of prisma.$transaction([...]) applied to the store.
applyStatusWrite(rows, ords, txId, orderId, newOrderStatus) ==
    [transactions |-> {IF t.id = txId THEN [t EXCEPT !.status = newOrderStatus] ELSE t : t \in rows},
     orders |-> [ords EXCEPT ![orderId].status = newOrderStatus]]

\* Variant: only a cancellation is notified.
notificationForCancellationOnly(newOrderStatus) ==
    CASE newOrderStatus = "CANCELLED" -> "cancellation"
      [] OTHER -> NULL

\* Lines 497-510: the notification sent for the new status, if any.
notificationFor(newOrderStatus) ==
    CASE newOrderStatus = "PAID" -> "confirmation"
      [] newOrderStatus = "CANCELLED" -> "cancellation"
      [] OTHER -> NULL

\* Lines 476-497: prisma.$transaction resolves (both rows updated) or
\* rejects (rolled back, the error leaves the handler); then the recipient
\* is resolved up to the next await.
Write(h) ==
    LET c == calls[h]
        newOrderStatus == mapPagSeguroStatusToOrderStatus(c.gwStatus)
        w == applyStatusWrite(transactions, orders, c.existing, c.orderId, newOrderStatus)
        d == [c EXCEPT !.wrote = TRUE]
    IN
    /\ c.pc = "write"
    /\ \/ /\ transactions' = w.transactions
          /\ orders' = w.orders
          /\ calls' = [calls EXCEPT ![h] =
                IF Truthy(orders[c.orderId].userId)
                THEN [d EXCEPT !.pc = "resolveRecipient"]
                ELSE IF Truthy(orders[c.orderId].guestEmail)
                        /\ notificationFor(newOrderStatus) # NULL
                     THEN [d EXCEPT !.pc = "notify"]
                     ELSE Return(d, NoGid)]
       \/ /\ calls' = [calls EXCEPT ![h] = Throw(c, "StoreError", "store")]
          /\ UNCHANGED <<transactions, orders>>
    /\ UNCHANGED <<env, charges>>

\* Lines 492-510: ordersService.findOneById resolves with the user's email
\* or rejects (swallowed by the catch around the notification).
ResolveRecipient(h) ==
    LET c == calls[h]
        newOrderStatus == mapPagSeguroStatusToOrderStatus(c.gwStatus)
    IN
    /\ c.pc = "resolveRecipient"
    /\ \/ calls' = [calls EXCEPT ![h] =
                IF Truthy(orders[c.orderId].userEmail) /\ notificationFor(newOrderStatus) # NULL
                THEN [c EXCEPT !.pc = "notify"]
                ELSE Return(c, NoGid)]
       \/ calls' = [calls EXCEPT ![h] = notificationOutcome(c, "resolve", NoGid)]
    /\ UNCHANGED <<env, orders, transactions, charges>>

\* Lines 497-517: sendPaymentConfirmationEmail / sendPaymentCancellationEmail
\* resolves or rejects (swallowed).
WebhookNotify(h) ==
    LET c == calls[h]
        newOrderStatus == mapPagSeguroStatusToOrderStatus(c.gwStatus)
    IN
    /\ c.pc = "notify" /\ c.op = "webhook"
    /\ \E mailError \in {NULL, "send"} :
         calls' = [calls EXCEPT ![h] =
            notificationOutcome([c EXCEPT !.notified = notificationFor(newOrderStatus)],
                                mailError, NoGid)]
    /\ UNCHANGED <<env, orders, transactions, charges>>

\* The response (or the exception) has gone out; the handler is gone.
Complete(h) ==
    /\ calls[h].pc = "done"
    /\ calls' = [calls EXCEPT ![h] = Idle]
    /\ UNCHANGED <<env, orders, transactions, charges>>

\* ---------------------------------------------------------- specification
CheckoutIds == (1..MaxCharges) \cup {UnknownGid}

\* One step of handler h; a new request draws its inputs from `inp`.
Step(h, inp) ==
    \/ \E op \in InitOps, o \in inp.orderIds, r \in inp.requesterIds :
         \E cardComplete \in (IF op = "card" THEN inp.cardComplete ELSE {TRUE}) :
            StartInitiation(h, op, o, r, cardComplete)
    \/ FindOrder(h)
    \/ FindExisting(h)
    \/ Rebuild(h)
    \/ Antifraud(h)
    \/ GatewayCreate(h)
    \/ Persist(h)
    \/ UpdateOrder(h)
    \/ CardNotify(h)
    \/ \E g \in CheckoutIds, sig \in inp.signatures, b \in inp.bodies :
         StartWebhook(h, g, sig, b)
    \/ GetCheckoutDetails(h, inp.gatewayStatuses)
    \/ FindTransaction(h)
    \/ Write(h)
    \/ ResolveRecipient(h)
    \/ WebhookNotify(h)
    \/ Complete(h)

\* Spec: requests of the owner of order o1 and webhooks signed by the
\* gateway, two handlers racing, in a fully configured deployment.
OwnerRequests ==
    [orderIds |-> {"o1"}, requesterIds |-> {"u1"}, cardComplete |-> {TRUE},
     signatures |-> {HmacSha256Hex("s1", "b1")}, bodies |-> {"b1"},
     gatewayStatuses |-> GatewayStatuses]

InitConfigured ==
    /\ Init
    /\ env = [BACKEND_URL |-> "https://api", PAGSEGURO_WEBHOOK_SECRET |-> "s1"]

Next == \E h \in Handlers : Step(h, OwnerRequests)

Spec == InitConfigured /\ [][Next]_vars

\* SpecRequests: any request (any order id, requester, signature and body)
\* in any deployment, one handler at a time.
AnyRequest ==
    [orderIds |-> RequestOrderIds, requesterIds |-> RequesterIds, cardComplete |-> BOOLEAN,
     signatures |-> Signatures, bodies |-> Bodies, gatewayStatuses |-> GatewayStatuses]

NextRequests == Step("h1", AnyRequest)

SpecRequests == Init /\ [][NextRequests]_vars

\* SpecSequential: the requests of Spec served one after the other. A
\* request starts when no other is being served; the call that returned
\* before it stays in its slot until the new request has read it, and is
\* gone before the new request takes its next step.
NextSequential ==
    \E h \in Handlers :
        /\ \A k \in Handlers \ {h} :
              \/ calls[k].pc = "idle"
              \/ calls[h].pc = "idle" /\ calls[k].pc = "done"
              \/ calls[h].pc = "done"
        /\ Step(h, OwnerRequests)

SpecSequential == InitConfigured /\ [][NextSequential]_vars

\* SpecMapping: the owner's requests for order o1 and signed webhooks, one
\* handler, with the gateway reporting any status string of StatusStrings:
\* every status of the mapping's table and strings the table does not list.
StatusStrings ==
    {"PAID", "APPROVED", "IN_ANALYSIS", "PENDING", "CANCELED", "ABORTED",
     "REFUNDED", "SHIPPED", "DELIVERED", "WAITING", "paid"}

MappingRequests ==
    [orderIds |-> {"o1"}, requesterIds |-> {"u1"}, cardComplete |-> {TRUE},
     signatures |-> {HmacSha256Hex("s1", "b1")}, bodies |-> {"b1"},
     gatewayStatuses |-> StatusStrings]

NextMapping == Step("h1", MappingRequests)

SpecMapping == InitConfigured /\ [][NextMapping]_vars

\* SpecOrders: two orders paid side by side, in any interleaving: handler h1
\* serves the requests of u1 for order o1 and the signed webhooks for any
\* checkout id (of o1's charge or of o2's), handler h2 the requests of g1
\* for order o2.
OrderRequests(h) ==
    [orderIds |-> IF h = "h1" THEN {"o1"} ELSE {"o2"},
     requesterIds |-> IF h = "h1" THEN {"u1"} ELSE {"g1"},
     cardComplete |-> {TRUE},
     signatures |-> IF h = "h1" THEN {HmacSha256Hex("s1", "b1")} ELSE {},
     bodies |-> {"b1"},
     gatewayStatuses |-> {"APPROVED"}]

NextOrders == \E h \in Handlers : Step(h, OrderRequests(h))

SpecOrders == InitConfigured /\ [][NextOrders]_vars

TypeOK ==
    /\ \A o \in OrderIds : orders[o].status \in OrderStatus
    /\ \A h \in Handlers : calls[h].pc \in {"idle", "findOrder", "findExisting", "rebuild",
            "antifraud", "gatewayCreate", "persist", "updateOrder", "notify",
            "getCheckoutDetails", "findTransaction", "write", "resolveRecipient", "done"}

\* ------------------------------------------------------------------ claims
TransactionsOf(o) == {t \in transactions : t.orderId = o}
ChargesOf(o) == {ch \in charges : ch.orderId = o}

\* C1: an initiation call that repeats a call which stored the order's
\* Transaction and returned (same operation, order and requester) returns
\* a result too, and the result references that Transaction's gateway id.
C1_RepeatedCallReturnsSameCharge ==
    \A h \in Handlers :
        (calls[h].pc = "done" /\ calls[h].retry) =>
            /\ calls[h].outcome = "ok"
            /\ \E t \in TransactionsOf(calls[h].orderId) :
                    calls[h].resGid = t.gatewayTransactionId

\* C2: the gateway holds at most one charge per order.
C2_AtMostOneChargePerOrder ==
    \A o \in OrderIds : Cardinality(ChargesOf(o)) <= 1

\* C3: every order has at most one Transaction row.
C3_OneTransactionPerOrder ==
    \A o \in OrderIds : Cardinality(TransactionsOf(o)) <= 1

\* C3 witness: an insert for an order that already has its row was refused.
C3_Witness ==
    \E h \in Handlers :
        /\ calls[h].pc = "done" /\ calls[h].keyRefused
        /\ Cardinality(TransactionsOf(calls[h].orderId)) = 1

\* C4: a call whose insert is refused by the unique key (it lost the race
\* for the order) does not end in an error.
C4_RaceLoserReturnsExisting ==
    \A h \in Handlers :
        (calls[h].pc = "done" /\ calls[h].keyRefused) =>
            /\ calls[h].outcome = "ok"
            /\ \E t \in TransactionsOf(calls[h].orderId) :
                    calls[h].resGid = t.gatewayTransactionId

\* C5: a gateway-create call is made only after the antifraud analysis of
\* the same call answered with a verdict other than DENIED; a call with a
\* DENIED verdict ends without gateway-create call and without inserting.
C5_AntifraudPrecedesGatewayCreate ==
    \A h \in Handlers :
        LET c == calls[h] IN
        c.op \in InitOps =>
            /\ (c.pc \in {"gatewayCreate", "persist", "updateOrder", "notify"}
                    \/ c.gwCreateCalled \/ c.gid # NoGid \/ c.inserted)
                => c.verdict \in AntifraudVerdicts \ {"DENIED"}
            /\ c.verdict = "DENIED"
                => /\ c.pc = "done" /\ c.outcome # "ok"
                   /\ ~c.gwCreateCalled /\ c.gid = NoGid /\ ~c.inserted

\* C5 witness: one call was stopped by DENIED while another, APPROVED, has
\* created its charge.
C5_Witness ==
    \E h, k \in Handlers :
        /\ calls[h].verdict = "DENIED" /\ calls[h].pc = "done"
        /\ calls[k].verdict = "APPROVED" /\ calls[k].gid # NoGid

\* The ownership rule as the specification words it.
IsOwner(order, requesterId) ==
    /\ requesterId # NULL
    /\ \/ order.userId # NULL /\ requesterId = order.userId
       \/ order.userId = NULL /\ order.guestId # NULL /\ requesterId = order.guestId

\* The call went past ensureOrderOwnership.
PassedOwnership(c) ==
    /\ c.op \in InitOps
    /\ c.pc \notin {"idle", "findOrder"}
    /\ c.pc = "done" => c.cause \notin {"cardData", "order", "status", "ownership"}

\* C6: an initiation call passes the ownership check only for the order's
\* owner; every other requester is rejected, and the rejected call has
\* called neither antifraud nor the gateway and has written nothing.
C6_OnlyOwnerPasses ==
    \A h \in Handlers :
        LET c == calls[h] IN
        /\ PassedOwnership(c) => IsOwner(orders[c.orderId], c.requesterId)
        /\ (c.op \in InitOps /\ c.pc = "done" /\ c.cause = "ownership") =>
              /\ ~IsOwner(orders[c.orderId], c.requesterId)
              /\ c.outcome = "BadRequest"
              /\ c.verdict = NULL /\ ~c.gwCreateCalled /\ ~c.lookups
              /\ c.gid = NoGid /\ ~c.inserted /\ ~c.wrote
        /\ (c.op \in InitOps /\ c.pc = "done" /\ c.orderId \in OrderIds
                /\ ~IsOwner(orders[c.orderId], c.requesterId)) =>
              c.cause \in {"cardData", "status", "ownership"}

\* C6 witness: a requester with an id of their own was rejected on a guest
\* order, whose Transaction table is still empty.
C6_Witness ==
    \E h \in Handlers :
        /\ calls[h].pc = "done" /\ calls[h].cause = "ownership"
        /\ calls[h].requesterId = "u1" /\ calls[h].orderId = "o2"
        /\ TransactionsOf("o2") = {}

\* The webhook call went past the signature check.
PassedSignature(c) ==
    /\ c.op = "webhook"
    /\ c.pc = "done" => c.cause \notin {"secret", "signature"}

\* C7: with a configured secret, a webhook call passes the signature check
\* exactly when its signature is the HMAC of its raw body under the secret;
\* every other call ends Unauthorized.
C7_SignatureAcceptedIffHmacOfBody ==
    \A h \in Handlers :
        LET c == calls[h] IN
        (c.op = "webhook" /\ Truthy(env.PAGSEGURO_WEBHOOK_SECRET)) =>
            /\ PassedSignature(c) <=>
                 c.signature = HmacSha256Hex(env.PAGSEGURO_WEBHOOK_SECRET, c.rawBody)
            /\ ~PassedSignature(c) => c.outcome = "Unauthorized"

\* C7 witness: the right signature of another body was refused.
C7_Witness ==
    \E h \in Handlers :
        /\ calls[h].op = "webhook" /\ calls[h].outcome = "Unauthorized"
        /\ \E b \in Bodies \ {calls[h].rawBody} :
              calls[h].signature = HmacSha256Hex(env.PAGSEGURO_WEBHOOK_SECRET, b)

\* The handler has done nothing beyond the signature check.
NoWebhookEffect(c) ==
    /\ ~c.lookups /\ ~c.wrote /\ c.notified = NULL
    /\ c.orderId = NULL /\ c.existing = NoGid /\ c.gwStatus = NULL

\* C8: a webhook call whose signature does not verify has looked up nothing
\* at the gateway, read and written no row and sent no notification, and the
\* step that rejects it leaves every Order and Transaction as it was.
C8_RejectedWebhookHasNoEffect ==
    /\ [](\A h \in Handlers :
            (calls[h].op = "webhook" /\ Truthy(env.PAGSEGURO_WEBHOOK_SECRET)
                /\ calls[h].signature #
                      HmacSha256Hex(env.PAGSEGURO_WEBHOOK_SECRET, calls[h].rawBody))
            => (calls[h].pc = "done" /\ NoWebhookEffect(calls[h])))
    /\ [][\A h \in Handlers :
            (calls[h].pc = "idle" /\ calls'[h].outcome = "Unauthorized")
            => UNCHANGED <<orders, transactions, charges>>]_vars

\* C8 witness: a call with a signature made with another key was rejected
\* while an order has a Transaction that a reconciliation could change.
C8_Witness ==
    \E h \in Handlers :
        /\ calls[h].outcome = "Unauthorized"
        /\ calls[h].signature = HmacSha256Hex("", calls[h].rawBody)
        /\ \E t \in transactions : t.gatewayTransactionId = calls[h].checkoutId

\* C9: without a configured webhook secret every webhook call ends in an
\* error, whatever it carries, and has had no effect.
C9_NoSecretFailsClosed ==
    \A h \in Handlers :
        (calls[h].op = "webhook" /\ ~Truthy(env.PAGSEGURO_WEBHOOK_SECRET)) =>
            /\ calls[h].pc = "done" /\ calls[h].outcome = "InternalError"
            /\ NoWebhookEffect(calls[h])

\* C9 witness: the secret is the empty string and the call carries the
\* HMAC of its body under the empty key.
C9_Witness ==
    \E h \in Handlers :
        /\ env.PAGSEGURO_WEBHOOK_SECRET = ""
        /\ calls[h].op = "webhook" /\ calls[h].outcome = "InternalError"
        /\ calls[h].signature = HmacSha256Hex("", calls[h].rawBody)
        /\ \E t \in transactions : t.gatewayTransactionId = calls[h].checkoutId

\* C10: every step of a webhook handler either leaves all Transactions and
\* Orders as they were, or sets the status of its Transaction and of that
\* Transaction's Order to the same new status and changes nothing else.
C10_StatusWriteAllOrNothing ==
    [][\A h \in Handlers :
          (calls[h].op = "webhook" /\ calls'[h] # calls[h]) =>
              \/ UNCHANGED <<orders, transactions>>
              \/ LET new == mapPagSeguroStatusToOrderStatus(calls[h].gwStatus)
                     o == calls[h].orderId
                 IN /\ calls[h].pc = "write" /\ calls'[h].wrote
                    /\ orders'[o].status = new
                    /\ \A p \in OrderIds \ {o} : orders'[p] = orders[p]
                    /\ \E t \in transactions :
                          /\ t.id = calls[h].existing /\ t.orderId = o
                          /\ transactions' =
                                (transactions \ {t}) \cup {[t EXCEPT !.status = new]}
      ]_vars

\* C10 witness: a webhook handler has written, and the order and its
\* Transaction (inserted under a REVIEW verdict) are both PAID.
C10_Witness ==
    \E h \in Handlers :
        /\ calls[h].op = "webhook" /\ calls[h].wrote
        /\ orders[calls[h].orderId].status = "PAID"
        /\ \E t \in TransactionsOf(calls[h].orderId) :
              t.status = "PAID" /\ t.antifraudStatus = "REVIEW"

\* C11: when a webhook delivery follows next after a delivery for the same
\* checkout id that returned a result, and the gateway reports the same
\* status to both, the second delivery writes nothing, sends no notification
\* and returns the no-op result, and the Order and the Transaction are as
\* the first left them: both at the mapping of that status.
C11_RedeliveryIsNoOp ==
    \A q \in Handlers :
        ( /\ calls[q].op = "webhook"
          /\ calls[q].prevStatus # NULL
          /\ calls[q].gwStatus = calls[q].prevStatus ) =>
            /\ calls[q].pc \in {"findTransaction", "done"}
            /\ ~calls[q].wrote
            /\ calls[q].notified = NULL
            /\ calls[q].pc = "done" =>
                  /\ calls[q].outcome = "ok"
                  /\ LET t == findByGatewayId(transactions, calls[q].checkoutId)
                         new == mapPagSeguroStatusToOrderStatus(calls[q].gwStatus)
                     IN t # NoTx /\ t.status = new /\ orders[t.orderId].status = new

C11_Witness ==
    \E q \in Handlers :
        /\ calls[q].op = "webhook" /\ calls[q].pc = "done" /\ calls[q].outcome = "ok"
        /\ calls[q].prevStatus = "APPROVED" /\ calls[q].gwStatus = "APPROVED"
        /\ orders["o1"].status = "PAID"

\* C12: mapPagSeguroStatusToOrderStatus is this table: PAID and APPROVED
\* give PAID; IN_ANALYSIS and PENDING give PENDING; CANCELED and ABORTED
\* give CANCELLED; REFUNDED and SHIPPED give SHIPPED; DELIVERED gives
\* DELIVERED; every other string gives PENDING. For every status the
\* gateway reports to a webhook delivery, the status the handler maps it to,
\* and the status it writes or finds already written, is the table's.
C12_Pairs ==
    {<<"PAID", "PAID">>, <<"APPROVED", "PAID">>,
     <<"IN_ANALYSIS", "PENDING">>, <<"PENDING", "PENDING">>,
     <<"CANCELED", "CANCELLED">>, <<"ABORTED", "CANCELLED">>,
     <<"REFUNDED", "SHIPPED">>, <<"SHIPPED", "SHIPPED">>,
     <<"DELIVERED", "DELIVERED">>}

C12_Table(s) ==
    IF \E pr \in C12_Pairs : pr[1] = s
    THEN (CHOOSE pr \in C12_Pairs : pr[1] = s)[2]
    ELSE "PENDING"

C12_MappingIsTheTable ==
    /\ [](\A h \in Handlers :
            (calls[h].op = "webhook" /\ calls[h].gwStatus # NULL) =>
                /\ mapPagSeguroStatusToOrderStatus(calls[h].gwStatus)
                        = C12_Table(calls[h].gwStatus)
                /\ (calls[h].pc = "done" /\ calls[h].outcome = "ok") =>
                        orders[calls[h].orderId].status = C12_Table(calls[h].gwStatus))
    /\ [][\A h \in Handlers :
            (calls[h].pc = "write" /\ calls'[h].wrote) =>
                /\ orders'[calls[h].orderId].status = C12_Table(calls[h].gwStatus)
                /\ \A t \in transactions' :
                      t.id = calls[h].existing => t.status = C12_Table(calls[h].gwStatus)]_vars

C12_Witness ==
    \E h \in Handlers :
        /\ calls[h].op = "webhook" /\ calls[h].pc = "done" /\ calls[h].wrote
        /\ calls[h].gwStatus = "paid"
        /\ orders[calls[h].orderId].status = "PENDING"

\* C13: with requests served one after the other, at the step where a
\* webhook delivery returns its result the Transaction of its checkout id and
\* that Transaction's Order both have the mapping of the status the delivery
\* fetched (PAID for APPROVED); and when the delivery wrote the status PAID
\* (CANCELLED) and the recipient's email resolved, it has attempted the
\* confirmation (cancellation) notification.
C13_Returns(h) ==
    /\ calls[h].op = "webhook" /\ calls[h].pc # "done"
    /\ calls'[h].pc = "done" /\ calls'[h].outcome = "ok"

C14_PixCreatesOnePendingTransaction ==
    [][\A h \in Handlers :
        ( /\ calls[h].op = "pix" /\ calls[h].pc = "persist"
          /\ calls'[h].pc = "done" /\ calls'[h].outcome = "ok" ) =>
            LET c == calls[h] IN
            /\ TransactionsOf(c.orderId) = {}
            /\ \E row \in transactions' :
                  /\ row \notin transactions
                  /\ transactions' = transactions \cup {row}
                  /\ row.orderId = c.orderId
                  /\ row.status = "PENDING"
                  /\ row.gatewayTransactionId = c.gid
                  /\ [id |-> c.gid, orderId |-> c.orderId] \in charges
                  /\ row.antifraudStatus = c.verdict
            /\ c.verdict \in {"APPROVED", "REVIEW"}
            /\ calls'[h].resGid = c.gid
            /\ orders' = orders
            /\ orders[c.orderId].status = "PENDING"]_vars

C14_Witness ==
    \E h \in Handlers :
        /\ calls[h].op = "pix" /\ calls[h].pc = "done" /\ calls[h].outcome = "ok"
        /\ calls[h].inserted /\ calls[h].verdict = "REVIEW"
        /\ orders[calls[h].orderId].status = "PENDING"
        /\ \E t \in transactions :
              /\ t.orderId = calls[h].orderId /\ t.status = "PENDING"
              /\ t.gatewayTransactionId = calls[h].gid /\ t.antifraudStatus = "REVIEW"

\* C15: a failure of the notification (the recipient lookup or the mail
\* send throws) after a committed status change fails nothing and undoes
\* nothing: at that step the webhook call returns its result, the direct card
\* call returns the gateway's response, and no Order or Transaction changes;
\* a call that met such a failure has written and has returned a result.
C15_NotificationFails(h) ==
    calls[h].mailError = NULL /\ calls'[h].mailError # NULL

C15_NotificationFailureIsSwallowed ==
    /\ [](\A h \in Handlers :
            calls[h].mailError # NULL =>
                /\ calls[h].op \in {"webhook", "card"}
                /\ calls[h].wrote
                /\ calls[h].pc = "done" /\ calls[h].outcome = "ok")
    /\ [][\A h \in Handlers :
            C15_NotificationFails(h) =>
                /\ calls'[h].pc = "done" /\ calls'[h].outcome = "ok"
                /\ calls[h].op = "card" => calls'[h].resGid = calls[h].gid
                /\ orders' = orders
                /\ transactions' = transactions]_vars

C15_Witness ==
    \E h \in Handlers, k \in Handlers :
        /\ calls[h].op = "card" /\ calls[h].pc = "done" /\ calls[h].outcome = "ok"
        /\ calls[h].mailError = "send" /\ calls[h].wrote
        /\ calls[k].op = "webhook" /\ calls[k].pc = "done" /\ calls[k].outcome = "ok"
        /\ calls[k].mailError = "resolve" /\ calls[k].wrote
        /\ calls[k].gwStatus = "CANCELED"
        /\ orders[calls[k].orderId].status = "CANCELLED"

\* C16: an initiation call whose antifraud verdict is DENIED ends with the
\* bad-request error of the denial ("transaction denied by fraud analysis"),
\* not with a generic internal error.
C16_DeniedRaisesBadRequest ==
    \A h \in Handlers :
        ( /\ calls[h].op \in InitOps /\ calls[h].pc = "done"
          /\ calls[h].verdict = "DENIED" ) =>
            /\ calls[h].outcome = "BadRequest"
            /\ calls[h].cause = "denied"

\* C17: every change of an Order's status is one of PENDING to PAID, PENDING
\* to CANCELLED, PAID to SHIPPED, SHIPPED to DELIVERED.
C17_Transitions ==
    {<<"PENDING", "PAID">>, <<"PENDING", "CANCELLED">>,
     <<"PAID", "SHIPPED">>, <<"SHIPPED", "DELIVERED">>}

C17_StatusFollowsStateMachine ==
    [][\A o \in OrderIds :
        orders'[o].status # orders[o].status =>
            <<orders[o].status, orders'[o].status>> \in C17_Transitions]_vars

\* C18: an initiation call by the order's owner, made when the order's
\* Transaction already exists, returns a result and never ends with an error,
\* whatever status the order has reached.
C18_OwnerRetryNeverRaises ==
    \A h \in Handlers :
        ( /\ calls[h].op \in InitOps /\ calls[h].pc = "done"
          /\ calls[h].hadTx
          /\ calls[h].orderId \in OrderIds
          /\ IsOwner(orders[calls[h].orderId], calls[h].requesterId) ) =>
            calls[h].outcome = "ok"

\* C19: every Transaction carries the id of a charge the gateway created
\* for its order; an initiation call whose antifraud call, callback-URL check
\* or gateway-create call failed has ended with an error and has stored no
\* Transaction and written no Order; no step of a call up to and including
\* its gateway-create step changes a Transaction or an Order; without a
\* callback URL nothing is ever charged or stored.
C19_FailedBefore(c) ==
    /\ c.op \in InitOps /\ c.pc = "done"
    /\ c.cause \in {"antifraud", "denied", "backendUrl", "pagseguro", "gatewayOther"}

C19_TransactionOnlyAfterGatewayCreate ==
    /\ [](/\ \A t \in transactions :
                [id |-> t.gatewayTransactionId, orderId |-> t.orderId] \in charges
          /\ \A h \in Handlers :
                C19_FailedBefore(calls[h]) =>
                    /\ calls[h].outcome \notin {"ok", NULL}
                    /\ ~calls[h].inserted /\ ~calls[h].wrote
                    /\ calls[h].gid = NoGid
          /\ ~Truthy(env.BACKEND_URL) => (charges = {} /\ transactions = {}))
    /\ [][\A h \in Handlers :
            ( /\ calls[h].pc \in {"idle", "findOrder", "findExisting", "antifraud",
                                  "gatewayCreate"}
              /\ calls'[h] # calls[h] ) =>
                (transactions' = transactions /\ orders' = orders)]_vars

C19_Witness ==
    /\ C19_FailedBefore(calls["h1"])
    /\ calls["h1"].cause = "backendUrl" /\ calls["h1"].verdict = "APPROVED"
    /\ calls["h1"].outcome = "InternalError"
    /\ transactions = {}

\* C20: when no call is in progress, every charge the gateway created for
\* an order is recorded in a Transaction of that order with the charge's id.
C20_EveryChargeIsRecorded ==
    (\A h \in Handlers : calls[h].pc \in {"idle", "done"}) =>
        \A ch \in charges :
            \E t \in transactions :
                t.orderId = ch.orderId /\ t.gatewayTransactionId = ch.id

\* C21: at the step where a processCreditCardPayment call that stored its
\* Transaction returns its result: if the gateway answered PAID, the Order
\* is PAID, the Transaction the call stored is PAID, and the confirmation
\* notification was attempted if the order has a recipient email; if the
\* gateway answered another status, the call has written no Order and the
\* Order is PENDING as before.
C21_Returns(h) ==
    /\ calls[h].op = "card" /\ calls[h].pc # "done"
    /\ calls'[h].pc = "done" /\ calls'[h].outcome = "ok" /\ calls'[h].inserted

C22_OrderPaidIffTransactionPaid ==
    (\A h \in Handlers : calls[h].pc \in {"idle", "done"}) =>
        \A t \in transactions :
            (orders[t.orderId].status = "PAID") <=> (t.status = "PAID")

\* C23: an initiation call that loads an order whose status is not PENDING
\* ends with the bad-request error of the status check, and one whose order
\* id does not exist ends with NotFound; such a call has made no antifraud
\* call and no gateway call (create or details lookup), has stored and
\* written nothing, and the step that rejects it leaves every Order,
\* Transaction and charge as it was.
C23_Rejected(c) ==
    c.op \in InitOps /\ c.pc = "done" /\ c.cause \in {"status", "order"}

C23_NotPayableHasNoEffect ==
    /\ [](\A h \in Handlers :
            C23_Rejected(calls[h]) =>
                /\ calls[h].cause = "status" => calls[h].outcome = "BadRequest"
                /\ calls[h].cause = "order" => calls[h].outcome = "NotFound"
                /\ calls[h].verdict = NULL
                /\ ~calls[h].gwCreateCalled /\ ~calls[h].lookups
                /\ calls[h].gid = NoGid /\ calls[h].resGid = NoGid
                /\ ~calls[h].inserted /\ ~calls[h].wrote /\ calls[h].notified = NULL)
    /\ [][\A h \in Handlers :
            (calls[h].pc = "findOrder" /\ calls'[h] # calls[h]) =>
                LET o == calls[h].orderId IN
                /\ o \notin OrderIds =>
                      (calls'[h].pc = "done" /\ calls'[h].outcome = "NotFound")
                /\ (o \in OrderIds /\ orders[o].status # "PENDING") =>
                      (calls'[h].pc = "done" /\ calls'[h].outcome = "BadRequest"
                          /\ calls'[h].cause = "status")
                /\ UNCHANGED <<orders, transactions, charges>>]_vars

C23_Witness ==
    \E h \in Handlers :
        /\ C23_Rejected(calls[h]) /\ calls[h].cause = "status"
        /\ calls[h].op = "pix"
        /\ orders[calls[h].orderId].status = "CANCELLED"
        /\ TransactionsOf(calls[h].orderId) # {}

\* C24: an initiation call by a requester who is not the order's owner never
\* gets past the ownership check: it makes no gateway details lookup, reads
\* no existing Transaction and returns nothing built from one; and the step
\* that rejects it ends the call with an outcome that depends only on the
\* Order's status, not on whether the order has a Transaction.
C24_NonOwner(c) ==
    /\ c.op \in InitOps /\ c.orderId \in OrderIds
    /\ ~IsOwner(orders[c.orderId], c.requesterId)

C24_OwnershipBeforeShortCircuit ==
    /\ [](\A h \in Handlers :
            C24_NonOwner(calls[h]) =>
                /\ calls[h].pc \in {"findOrder", "done"}
                /\ ~calls[h].lookups
                /\ calls[h].existing = NoGid /\ calls[h].resGid = NoGid
                /\ calls[h].pc = "done" => calls[h].outcome = "BadRequest")
    /\ [][\A h \in Handlers :
            (C24_NonOwner(calls[h]) /\ calls[h].pc = "findOrder" /\ calls'[h] # calls[h]) =>
                /\ calls'[h].pc = "done"
                /\ calls'[h].outcome = "BadRequest"
                /\ calls'[h].cause =
                      (IF orders[calls[h].orderId].status # "PENDING"
                       THEN "status" ELSE "ownership")
                /\ calls'[h].resGid = NoGid /\ calls'[h].existing = NoGid]_vars

C24_Witness ==
    \E h \in Handlers :
        /\ C24_NonOwner(calls[h]) /\ calls[h].pc = "done"
        /\ calls[h].cause = "ownership" /\ calls[h].requesterId = "g1"
        /\ calls[h].hadTx
        /\ \E t \in TransactionsOf(calls[h].orderId) : t.gatewayTransactionId # NoGid

\* C25: an initiation call rejected by the ownership check because the
\* requester id does not match the order's owner ends with the Unauthorized
\* error kind.
C25_OwnershipMismatchIsUnauthorized ==
    \A h \in Handlers :
        LET c == calls[h] IN
        ( /\ c.op \in InitOps /\ c.pc = "done" /\ c.cause = "ownership"
          /\ (Truthy(orders[c.orderId].userId) \/ Truthy(orders[c.orderId].guestId)) ) =>
            c.outcome = "Unauthorized"

\* C26: a verified webhook delivery whose checkout id is the gateway id of
\* no stored Transaction ends with NotFound at its Transaction lookup; it
\* has written nothing and sent no notification, and the step that rejects
\* it leaves every Order and Transaction as it was.
C26_UnknownCheckoutIsNotFound ==
    /\ [](\A h \in Handlers :
            (calls[h].op = "webhook" /\ calls[h].pc = "done"
                /\ calls[h].cause = "transaction") =>
                /\ calls[h].outcome = "NotFound"
                /\ ~calls[h].wrote /\ calls[h].notified = NULL
                /\ calls[h].mailError = NULL /\ calls[h].orderId = NULL)
    /\ [][\A h \in Handlers :
            ( /\ calls[h].pc = "findTransaction" /\ calls'[h] # calls[h]
              /\ \A t \in transactions : t.gatewayTransactionId # calls[h].checkoutId ) =>
                /\ calls'[h].pc = "done" /\ calls'[h].outcome = "NotFound"
                /\ orders' = orders /\ transactions' = transactions]_vars

C26_Witness ==
    \E h \in Handlers :
        /\ calls[h].op = "webhook" /\ calls[h].pc = "done"
        /\ calls[h].outcome = "NotFound" /\ calls[h].checkoutId = UnknownGid
        /\ calls[h].lookups /\ calls[h].gwStatus = "APPROVED"
        /\ transactions # {}

\* C27: the status of every Transaction is a status of the Order status
\* vocabulary (PENDING, PAID, CANCELLED, SHIPPED, DELIVERED).
C27_TransactionStatusIsCanonical ==
    \A t \in transactions : t.status \in OrderStatus

\* C28: a step of an initiation call for order A, or of a webhook delivery
\* for a checkout id of a charge of order A, leaves every other Order and
\* the Transactions of every other order as they were, in any interleaving
\* with the calls for those orders.
C28_OrderOf(c) ==
    IF c.op \in InitOps THEN c.orderId
    ELSE IF c.op = "webhook" /\ \E ch \in charges : ch.id = c.checkoutId
         THEN (CHOOSE ch \in charges : ch.id = c.checkoutId).orderId
         ELSE NULL

C28_OrdersDoNotInterfere ==
    [][\A h \in Handlers :
        calls'[h] # calls[h] =>
            \A o \in OrderIds :
                o # C28_OrderOf(calls'[h]) =>
                    /\ orders'[o] = orders[o]
                    /\ {t \in transactions' : t.orderId = o} = TransactionsOf(o)]_vars

C28_Witness ==
    /\ calls["h1"].op = "webhook" /\ calls["h1"].pc = "done" /\ calls["h1"].wrote
    /\ calls["h1"].orderId = "o1" /\ orders["o1"].status = "PAID"
    /\ calls["h2"].op = "pix" /\ calls["h2"].pc = "done" /\ calls["h2"].inserted
    /\ orders["o2"].status = "PENDING"
    /\ \E t \in TransactionsOf("o2") : t.status = "PENDING"

====
